---- MODULE Spec2Model ----
(***************************************************************************)
(* A model of gradio_mcp_server.py: the FileMaker token cache and the      *)
(* backend client (get_fm_token, call_filemaker_script), the translation   *)
(* of tool descriptors into callables and forms (create_gradio_function,   *)
(* setup_gradio_interface), and the process entry (main, signal_handler).  *)
(*                                                                         *)
(* Python values are modelled as follows.  A text is a sequence of         *)
(* one-character strings.  A token is an integer: None is NoneTok, the     *)
(* empty string is EmptyTok, and the n-th token the backend issues is n.   *)
(* Other values are records [ty |-> <python type>, v |-> <text>].          *)
(***************************************************************************)
EXTENDS Integers, Sequences, FiniteSets, TLC

VARIABLES
    \* ---- token cache and backend client ----
    now,            \* time.time(), in seconds
    cacheToken,     \* _fm_token_cache["token"]
    cacheExpires,   \* _fm_token_cache["expires"]
    lockHolder,     \* holder of _fm_token_cache["lock"], 0 when free
    issued,         \* number of session POSTs the backend has received
    pc,             \* per request thread: position in the code
    op,             \* per request thread: the function it was asked to run
    current_time,   \* per thread: local current_time of get_fm_token
    token,          \* per thread: local token
    authCalls,      \* per thread: session POSTs sent by the running call
    scriptCalls,    \* per thread: script GETs sent by the running call
    snapshot,       \* per thread: the cache as it was when the call began
    outcome,        \* per thread: what the session POST of the running call did
    raised,         \* per thread: the exception that left get_fm_token, or "none"
    params,         \* per thread: the params argument of call_filemaker_script
    ret,            \* per thread: value get_fm_token returned
    sent,           \* per thread: what the script GET answered
    result,         \* per thread: return value of call_filemaker_script
    \* ---- translation and assembly ----
    apc,            \* position in setup_gradio_interface
    remaining,      \* elements of tools_data the first loop has not reached
    current,        \* the element of tools_data the first loop saw last
    built,          \* items of tool_functions the second loop has passed
    tool_functions, \* the dict tool_functions, as the sequence of its items
    interfaces,     \* the list interfaces
    demo,           \* what setup_gradio_interface returned
    forwarded,      \* the last call of a generated callable
    \* ---- process entry ----
    mpc,            \* position in main
    portState,      \* per port of ports_to_try: what launch does on it
    portIdx,        \* index in ports_to_try of the port being tried
    attempts,       \* the ports launch was called with, in order
    boundPort,      \* the port the server is bound to, 0 when none
    shutdown_requested,  \* _shutdown_requested
    lastSignal,     \* the signal delivered last, "none" when none
    exitCode        \* exit code of the process, -1 while it runs

tokenVars == <<now, cacheToken, cacheExpires, lockHolder, issued, pc, op,
               current_time, token, authCalls, scriptCalls, snapshot, outcome,
               raised, params, ret, sent, result>>

toolVars == <<apc, remaining, current, built, tool_functions, interfaces, demo,
              forwarded>>

mainVars == <<mpc, portState, portIdx, attempts, boundPort, shutdown_requested,
              lastSignal, exitCode>>

vars == <<tokenVars, toolVars, mainVars>>

nonTokenVars == <<toolVars, mainVars>>
nonToolVars == <<tokenVars, mainVars>>
nonMainVars == <<tokenVars, toolVars>>

-----------------------------------------------------------------------------
(* Bounds *)

NThreads == 2
MaxAuth == 3
MaxTicks == 3
MaxTools == 3
MaxParams == 2

Threads == 1..NThreads

-----------------------------------------------------------------------------
(* Texts *)

Digits == {"0", "1", "2", "3", "4", "5", "6", "7", "8", "9"}

Txt_42 == <<"4", "2">>
Txt_qok == <<"\"", "o", "k", "\"">>
Txt_obj == <<"{", "}">>
Txt_true == <<"t", "r", "u", "e">>
Txt_ok == <<"o", "k">>
Txt_brace == <<"{">>
Txt_empty == <<>>

ScriptTexts == {Txt_42, Txt_qok, Txt_obj, Txt_true, Txt_ok, Txt_brace, Txt_empty}

PyVal(ty, v) == [ty |-> ty, v |-> v]

Py_None == PyVal("NoneType", <<>>)

\* A JSON integer: an optional minus sign and digits without a leading zero.
IsJsonInt(s) ==
    /\ Len(s) >= 1
    /\ LET body == IF s[1] = "-" THEN Tail(s) ELSE s
       IN  /\ Len(body) >= 1
           /\ \A i \in 1..Len(body) : body[i] \in Digits
           /\ (Len(body) > 1 => body[1] # "0")

\* A JSON string without escapes: quote, characters, quote.
IsJsonString(s) ==
    /\ Len(s) >= 2
    /\ s[1] = "\""
    /\ s[Len(s)] = "\""
    /\ \A i \in 2..(Len(s) - 1) : s[i] \notin {"\"", "\\"}

\* json.loads on the scalar and empty-container subset of JSON.  A value
\* that is not a str raises TypeError, a text that is not JSON raises
\* JSONDecodeError; an exception is the value whose ty is its class.
json_loads(x) ==
    IF x.ty # "str" THEN PyVal("TypeError", <<>>)
    ELSE IF IsJsonInt(x.v) THEN PyVal("int", x.v)
    ELSE IF IsJsonString(x.v) THEN PyVal("str", SubSeq(x.v, 2, Len(x.v) - 1))
    ELSE IF x.v = <<"{", "}">> THEN PyVal("dict", <<>>)
    ELSE IF x.v = <<"[", "]">> THEN PyVal("list", <<>>)
    ELSE IF x.v = <<"t", "r", "u", "e">> THEN PyVal("bool", <<"1">>)
    ELSE IF x.v = <<"f", "a", "l", "s", "e">> THEN PyVal("bool", <<"0">>)
    ELSE IF x.v = <<"n", "u", "l", "l">> THEN Py_None
    ELSE PyVal("JSONDecodeError", x.v)

-----------------------------------------------------------------------------
(* Exceptions *)

\* The classes an exception is an instance of.
ExcBases(e) ==
    CASE e = "Timeout" -> {"Timeout", "RequestException", "Exception"}
      [] e = "ConnectionError" -> {"ConnectionError", "RequestException", "Exception"}
      [] e = "HTTPError" -> {"HTTPError", "RequestException", "Exception"}
      [] e = "JSONDecodeError" -> {"JSONDecodeError", "Exception"}
      [] e = "KeyError" -> {"KeyError", "Exception"}
      [] e = "TypeError" -> {"TypeError", "Exception"}

\* The index of the first except clause that catches e, 0 when none does.
Handler(e, clauses) ==
    LET hits == {i \in 1..Len(clauses) : clauses[i] \cap ExcBases(e) # {}}
    IN  IF hits = {} THEN 0 ELSE CHOOSE i \in hits : \A j \in hits : i <= j

-----------------------------------------------------------------------------
(* The token cache: get_fm_token *)

NoneTok == -1
EmptyTok == 0

\* Python truth of a token: None and "" are false.
Truthy(tok) == tok > 0

\* 14 * 60 seconds.
TokenLifetime == 14 * 60

\* The clock advances in steps of half a token lifetime.
TickStep == TokenLifetime \div 2

\* The test with the bound included: a token is used at its expiry time.
CacheFresh_inclusive(ct, tok, exp) == Truthy(tok) /\ ct <= exp

\* The test get_fm_token makes under the lock.
CacheFresh(ct, tok, exp) == Truthy(tok) /\ ct < exp

\* The except clauses of get_fm_token, in order.
get_fm_token_except ==
    <<{"Timeout"}, {"RequestException"}, {"KeyError", "JSONDecodeError"}, {"Exception"}>>

\* get_fm_token with only its first two except clauses: other exceptions
\* leave the function.
get_fm_token_uncaught_naive(e) ==
    IF Handler(e, SubSeq(get_fm_token_except, 1, 2)) = 0 THEN e ELSE "none"

\* The exception that leaves get_fm_token when e is raised in its try block,
\* "none" when an except clause catches it and the function returns None.
get_fm_token_uncaught(e) ==
    IF Handler(e, get_fm_token_except) = 0 THEN e ELSE "none"

\* What the session POST can do: answer with a token, answer with an empty
\* token, or make one of the statements of the try block raise.
AuthExceptions ==
    {"Timeout", "ConnectionError", "HTTPError", "JSONDecodeError", "KeyError", "TypeError"}
AuthOutcomes == {"token", "empty_token"} \cup AuthExceptions

Ops == {"get_fm_token", "call_filemaker_script"}
ParamKinds == {"empty", "serializable", "unserializable"}

NoSent == [kind |-> "none", value |-> Py_None]

TokenInit ==
    /\ now = TickStep
    /\ cacheToken = NoneTok
    /\ cacheExpires = 0
    /\ lockHolder = 0
    /\ issued = 0
    /\ pc = [t \in Threads |-> "idle"]
    /\ op = [t \in Threads |-> "get_fm_token"]
    /\ current_time = [t \in Threads |-> 0]
    /\ token = [t \in Threads |-> NoneTok]
    /\ authCalls = [t \in Threads |-> 0]
    /\ scriptCalls = [t \in Threads |-> 0]
    /\ snapshot = [t \in Threads |-> <<NoneTok, 0, 0>>]
    /\ outcome = [t \in Threads |-> "none"]
    /\ raised = [t \in Threads |-> "none"]
    /\ params = [t \in Threads |-> "empty"]
    /\ ret = [t \in Threads |-> NoneTok]
    /\ sent = [t \in Threads |-> NoSent]
    /\ result = [t \in Threads |-> Py_None]

\* time.time() moves on.
Tick ==
    /\ now < TickStep * (MaxTicks + 1)
    /\ now' = now + TickStep
    /\ UNCHANGED <<cacheToken, cacheExpires, lockHolder, issued, pc, op,
                   current_time, token, authCalls, scriptCalls, snapshot, outcome,
                   raised, params, ret, sent, result>>
    /\ UNCHANGED nonTokenVars

\* A request thread enters o; both functions start by reading the clock in
\* get_fm_token (call_filemaker_script calls it first).
Enter(t, o, p) ==
    /\ pc[t] = "idle"
    /\ issued < MaxAuth
    /\ pc' = [pc EXCEPT ![t] = "lock_check"]
    /\ op' = [op EXCEPT ![t] = o]
    /\ params' = [params EXCEPT ![t] = p]
    /\ current_time' = [current_time EXCEPT ![t] = now]
    /\ snapshot' = [snapshot EXCEPT ![t] = <<cacheToken, cacheExpires, now>>]
    /\ UNCHANGED <<now, cacheToken, cacheExpires, lockHolder, issued, token,
                   authCalls, scriptCalls, outcome, raised, ret, sent, result>>
    /\ UNCHANGED nonTokenVars

\* A request thread calls get_fm_token.
CallToken(t) == Enter(t, "get_fm_token", "empty")

\* A request thread calls get_fm_token or call_filemaker_script while no
\* other call is running.
CallAlone(t) ==
    /\ \A u \in Threads : pc[u] = "idle"
    /\ \E o \in Ops : \E p \in ParamKinds :
        /\ (o = "get_fm_token" => p = "empty")
        /\ Enter(t, o, p)

\* with _fm_token_cache["lock"]: (first block)
AcquireCheck(t) ==
    /\ pc[t] = "lock_check"
    /\ lockHolder = 0
    /\ lockHolder' = t
    /\ pc' = [pc EXCEPT ![t] = "check"]
    /\ UNCHANGED <<now, cacheToken, cacheExpires, issued, op, current_time,
                   token, authCalls, scriptCalls, snapshot, outcome, raised, params,
                   ret, sent, result>>
    /\ UNCHANGED nonTokenVars

\* The cache test; leaving the block releases the lock either way.
CheckCache(t) ==
    /\ pc[t] = "check"
    /\ lockHolder' = 0
    /\ IF CacheFresh(current_time[t], cacheToken, cacheExpires)
       THEN /\ ret' = [ret EXCEPT ![t] = cacheToken]
            /\ pc' = [pc EXCEPT ![t] = "returned"]
       ELSE /\ pc' = [pc EXCEPT ![t] = "post"]
            /\ UNCHANGED ret
    /\ UNCHANGED <<now, cacheToken, cacheExpires, issued, op, current_time,
                   token, authCalls, scriptCalls, snapshot, outcome, raised, params,
                   sent, result>>
    /\ UNCHANGED nonTokenVars

\* requests.post(...) is sent.
PostSession(t) ==
    /\ pc[t] = "post"
    /\ pc' = [pc EXCEPT ![t] = "auth"]
    /\ authCalls' = [authCalls EXCEPT ![t] = @ + 1]
    /\ UNCHANGED <<now, cacheToken, cacheExpires, lockHolder, issued, op,
                   current_time, token, scriptCalls, snapshot, outcome, raised, params,
                   ret, sent, result>>
    /\ UNCHANGED nonTokenVars

\* The POST ends: a token, or an exception that an except clause turns into
\* return None (or that leaves the function when no clause catches it).
SessionResponse(t) ==
    /\ pc[t] = "auth"
    /\ \E o \in AuthOutcomes :
        /\ outcome' = [outcome EXCEPT ![t] = o]
        /\ IF o = "token"
           THEN /\ issued' = issued + 1
                /\ token' = [token EXCEPT ![t] = issued + 1]
                /\ pc' = [pc EXCEPT ![t] = "lock_store"]
                /\ UNCHANGED <<ret, raised>>
           ELSE IF o = "empty_token"
           THEN /\ token' = [token EXCEPT ![t] = EmptyTok]
                /\ pc' = [pc EXCEPT ![t] = "lock_store"]
                /\ UNCHANGED <<issued, ret, raised>>
           ELSE /\ pc' = [pc EXCEPT ![t] = "returned"]
                /\ raised' = [raised EXCEPT ![t] = get_fm_token_uncaught(o)]
                /\ ret' = [ret EXCEPT ![t] = NoneTok]
                /\ UNCHANGED <<issued, token>>
    /\ UNCHANGED <<now, cacheToken, cacheExpires, lockHolder, op, current_time,
                   authCalls, scriptCalls, snapshot, params, sent, result>>
    /\ UNCHANGED nonTokenVars

\* with _fm_token_cache["lock"]: (second block)
AcquireStore(t) ==
    /\ pc[t] = "lock_store"
    /\ lockHolder = 0
    /\ lockHolder' = t
    /\ pc' = [pc EXCEPT ![t] = "set_token"]
    /\ UNCHANGED <<now, cacheToken, cacheExpires, issued, op, current_time,
                   token, authCalls, scriptCalls, snapshot, outcome, raised, params,
                   ret, sent, result>>
    /\ UNCHANGED nonTokenVars

\* _fm_token_cache["token"] = token
StoreToken(t) ==
    /\ pc[t] = "set_token"
    /\ cacheToken' = token[t]
    /\ pc' = [pc EXCEPT ![t] = "set_expires"]
    /\ UNCHANGED <<now, cacheExpires, lockHolder, issued, op, current_time,
                   token, authCalls, scriptCalls, snapshot, outcome, raised, params,
                   ret, sent, result>>
    /\ UNCHANGED nonTokenVars

\* _fm_token_cache["expires"] = current_time + (14 * 60); the block ends and
\* the function returns token.
StoreExpires(t) ==
    /\ pc[t] = "set_expires"
    /\ cacheExpires' = current_time[t] + TokenLifetime
    /\ lockHolder' = 0
    /\ ret' = [ret EXCEPT ![t] = token[t]]
    /\ pc' = [pc EXCEPT ![t] = "returned"]
    /\ UNCHANGED <<now, cacheToken, issued, op, current_time, token,
                   authCalls, scriptCalls, snapshot, outcome, raised, params, sent,
                   result>>
    /\ UNCHANGED nonTokenVars

-----------------------------------------------------------------------------
(* The backend client: call_filemaker_script *)

\* The except clauses of call_filemaker_script, in order, and the reason
\* each one puts in the error payload.
call_filemaker_script_except ==
    <<{"Timeout"}, {"RequestException"}, {"KeyError", "JSONDecodeError"}, {"Exception"}>>
ErrorReasons ==
    <<"timed out", "Script execution failed", "Invalid response format", "Unexpected error">>

ErrorPayload(reason) == PyVal("error_dict", <<reason>>)

\* What call_filemaker_script returns when e is raised in its try block; an
\* exception no clause catches leaves the function.
ScriptExcept(e) ==
    LET i == Handler(e, call_filemaker_script_except)
    IN  IF i = 0 THEN PyVal("raised", <<e>>) ELSE ErrorPayload(ErrorReasons[i])

\* The values the scriptResult field of an envelope can hold.
ScriptValues ==
    {PyVal("str", s) : s \in ScriptTexts} \cup {PyVal("int", <<"5">>), Py_None}

\* What the script GET can do: raise in requests.get or raise_for_status,
\* answer a body that is no JSON, that has no 'response' key or whose
\* 'response' is no container, answer an envelope without scriptResult, or
\* answer an envelope with one.
ScriptExceptions ==
    {"Timeout", "ConnectionError", "HTTPError", "JSONDecodeError", "KeyError", "TypeError"}
ScriptResponses ==
    {[kind |-> e, value |-> Py_None] : e \in ScriptExceptions}
    \cup {[kind |-> "no_scriptResult", value |-> Py_None]}
    \cup {[kind |-> "scriptResult", value |-> x] : x \in ScriptValues}

\* The response dict itself, returned when it has no scriptResult.
ResponseDict == PyVal("dict", <<"response">>)

\* The scriptResult returned as it is, without json.loads.
ParseScriptResult_raw(x) == x

\* if 'scriptResult' in result: try json.loads; except return it as it is.
ParseScriptResult(x) ==
    LET parsed == json_loads(x)
    IN  IF parsed.ty \in {"JSONDecodeError", "TypeError"} THEN x ELSE parsed

\* The return value of call_filemaker_script for an answer r of the GET.
ScriptReturn(r) ==
    IF r.kind \in ScriptExceptions THEN ScriptExcept(r.kind)
    ELSE IF r.kind = "no_scriptResult" THEN ResponseDict
    ELSE ParseScriptResult(r.value)

\* token = get_fm_token() has returned: the token test, the encoding of
\* params, and requests.get(...) is sent.
SendScript(t) ==
    /\ pc[t] = "returned"
    /\ op[t] = "call_filemaker_script"
    /\ IF raised[t] # "none"
       THEN /\ result' = [result EXCEPT ![t] = ScriptExcept(raised[t])]
            /\ pc' = [pc EXCEPT ![t] = "done"]
            /\ UNCHANGED scriptCalls
       ELSE IF ~Truthy(ret[t])
       THEN /\ result' = [result EXCEPT ![t] =
                             ErrorPayload("Could not authenticate with FileMaker")]
            /\ pc' = [pc EXCEPT ![t] = "done"]
            /\ UNCHANGED scriptCalls
       ELSE IF params[t] = "unserializable"
       THEN /\ result' = [result EXCEPT ![t] = ErrorPayload("Invalid script parameters")]
            /\ pc' = [pc EXCEPT ![t] = "done"]
            /\ UNCHANGED scriptCalls
       ELSE /\ scriptCalls' = [scriptCalls EXCEPT ![t] = @ + 1]
            /\ pc' = [pc EXCEPT ![t] = "script"]
            /\ UNCHANGED result
    /\ UNCHANGED <<now, cacheToken, cacheExpires, lockHolder, issued, op,
                   current_time, token, authCalls, snapshot, outcome, raised, params,
                   ret, sent>>
    /\ UNCHANGED nonTokenVars

\* The GET ends and call_filemaker_script returns.
ScriptResponse(t) ==
    /\ pc[t] = "script"
    /\ \E r \in ScriptResponses :
        /\ sent' = [sent EXCEPT ![t] = r]
        /\ result' = [result EXCEPT ![t] = ScriptReturn(r)]
    /\ pc' = [pc EXCEPT ![t] = "done"]
    /\ UNCHANGED <<now, cacheToken, cacheExpires, lockHolder, issued, op,
                   current_time, token, authCalls, scriptCalls, snapshot, outcome,
                   raised, params, ret>>
    /\ UNCHANGED nonTokenVars

\* The caller has the return value; the thread is free for the next request.
Finish(t) ==
    /\ \/ pc[t] = "done"
       \/ pc[t] = "returned" /\ op[t] = "get_fm_token"
    /\ pc' = [pc EXCEPT ![t] = "idle"]
    /\ op' = [op EXCEPT ![t] = "get_fm_token"]
    /\ current_time' = [current_time EXCEPT ![t] = 0]
    /\ token' = [token EXCEPT ![t] = NoneTok]
    /\ authCalls' = [authCalls EXCEPT ![t] = 0]
    /\ scriptCalls' = [scriptCalls EXCEPT ![t] = 0]
    /\ snapshot' = [snapshot EXCEPT ![t] = <<NoneTok, 0, 0>>]
    /\ outcome' = [outcome EXCEPT ![t] = "none"]
    /\ raised' = [raised EXCEPT ![t] = "none"]
    /\ params' = [params EXCEPT ![t] = "empty"]
    /\ ret' = [ret EXCEPT ![t] = NoneTok]
    /\ sent' = [sent EXCEPT ![t] = NoSent]
    /\ result' = [result EXCEPT ![t] = Py_None]
    /\ UNCHANGED <<now, cacheToken, cacheExpires, lockHolder, issued>>
    /\ UNCHANGED nonTokenVars

\* The steps of a running get_fm_token.
TokenStep(t) ==
    \/ AcquireCheck(t)
    \/ CheckCache(t)
    \/ PostSession(t)
    \/ SessionResponse(t)
    \/ AcquireStore(t)
    \/ StoreToken(t)
    \/ StoreExpires(t)
    \/ Finish(t)

-----------------------------------------------------------------------------
(* The descriptor translator: create_gradio_function *)

Letters ==
    {"a", "b", "c", "d", "e", "f", "g", "h", "i", "j", "k", "l", "m", "n", "o",
     "p", "q", "r", "s", "t", "u", "v", "w", "x", "y", "z",
     "A", "B", "C", "D", "E", "F", "G", "H", "I", "J", "K", "L", "M", "N", "O",
     "P", "Q", "R", "S", "T", "U", "V", "W", "X", "Y", "Z"}

\* str.isidentifier on ASCII text; it is true of keywords too.
IsIdentifier(s) ==
    /\ Len(s) >= 1
    /\ s[1] \in Letters \cup {"_"}
    /\ \A i \in 2..Len(s) : s[i] \in Letters \cup Digits \cup {"_"}

\* Python keywords (those of at most three letters): a def statement that
\* uses one as a name does not compile.
Keywords ==
    {<<"a", "s">>, <<"i", "f">>, <<"i", "n">>, <<"i", "s">>, <<"o", "r">>,
     <<"a", "n", "d">>, <<"d", "e", "f">>, <<"d", "e", "l">>, <<"f", "o", "r">>,
     <<"n", "o", "t">>, <<"t", "r", "y">>}

Range(q) == {q[i] : i \in 1..Len(q)}

Keys(props) == [i \in 1..Len(props) |-> props[i].key]

\* The names a generated function finds outside its parameters: the
\* namespace it was exec'ed in (call_filemaker_script and the function
\* itself) and the builtins (here: id).
Txt_call_filemaker_script ==
    <<"c", "a", "l", "l", "_", "f", "i", "l", "e", "m", "a", "k", "e", "r", "_",
      "s", "c", "r", "i", "p", "t">>
Builtins == {<<"i", "d">>}
Globals(name) == {Txt_call_filemaker_script, name} \cup Builtins

\* Tool names and parameter names of the descriptors considered.
N_t1 == <<"t", "1">>
N_t2 == <<"t", "2">>
N_t3 == <<"t", "3">>
N_dash == <<"m", "y", "-", "t">>
N_if == <<"i", "f">>
K_a == <<"a">>
K_dash == <<"b", "-", "c">>
K_id == <<"i", "d">>

\* The value of function.get('name').
NameValues ==
    {Py_None, PyVal("int", <<"5">>), PyVal("str", <<>>), PyVal("str", N_dash),
     PyVal("str", N_if), PyVal("str", N_t1), PyVal("str", N_t2), PyVal("str", N_t3)}

\* A parameter info is a dict (the parameter being listed in 'required' or
\* not) or something else.
Infos == {"not_dict", "required", "optional"}
ParamKeys == {K_a, K_dash, K_id}

\* The properties mapping: distinct keys, in the order of the descriptor.
PropsOfLen(n) ==
    {q \in [1..n -> [key : ParamKeys, info : Infos]] :
        \A i, j \in 1..n : i # j => q[i].key # q[j].key}
AllProps == UNION {PropsOfLen(n) : n \in 0..MaxParams}

\* tool_data: shape says how far it is a dict with a dict under 'function',
\* pshape whether 'parameters' and its 'properties' are dicts.
Descriptor(shape, name, pshape, props) ==
    [shape |-> shape, name |-> name, pshape |-> pshape, props |-> props]

\* Descriptors of every shape and name, with few parameters.
AssemblyPool ==
    {Descriptor(sh, Py_None, "ok", <<>>) :
        sh \in {"not_dict", "no_function", "function_not_dict"}}
    \cup {Descriptor("dict", n, "ok", <<>>) : n \in NameValues}
    \cup {Descriptor("dict", PyVal("str", N_t2), ps, <<>>) :
            ps \in {"parameters_not_dict", "properties_not_dict"}}
    \cup {Descriptor("dict", n, "ok", <<[key |-> K_a, info |-> "optional"]>>) :
            n \in {PyVal("str", N_t1), PyVal("str", N_dash)}}

\* Descriptors with every parameters mapping.
CallPool ==
    {Descriptor("dict", n, "ok", q) :
        n \in {PyVal("str", N_t1), PyVal("str", N_if)}, q \in AllProps}

NoCallable == [ok |-> FALSE, name |-> <<>>, sig |-> <<>>, body |-> <<>>]

\* if not name or not isinstance(name, str) or not name.isidentifier()
ValidName(name) == name.ty = "str" /\ name.v # <<>> /\ IsIdentifier(name.v)

\* required_params + optional_params: the dict infos with identifier keys,
\* those listed in 'required' first.
SigOf(props) ==
    Keys(SelectSeq(props, LAMBDA p : p.info = "required" /\ IsIdentifier(p.key)))
    \o Keys(SelectSeq(props, LAMBDA p : p.info = "optional" /\ IsIdentifier(p.key)))

\* The collection loop without the test of the key.
BodyOf_unfiltered(props) == Keys(props)

\* The keys the generated body collects: for param_name in
\* properties.keys(): if param_name.isidentifier().
BodyOf(props) == Keys(SelectSeq(props, LAMBDA p : IsIdentifier(p.key)))

\* exec(func_code, namespace) succeeds: the def statement and the body are
\* Python.
Compiles(name, sig, body) ==
    /\ IsIdentifier(name)
    /\ name \notin Keywords
    /\ \A k \in Range(sig) \cup Range(body) : IsIdentifier(k) /\ k \notin Keywords

\* create_gradio_function(tool_data): the generated function, or NoCallable
\* for None.
create_gradio_function(d) ==
    IF d.shape # "dict" THEN NoCallable
    ELSE IF ~ValidName(d.name) THEN NoCallable
    ELSE IF d.pshape = "properties_not_dict" THEN NoCallable
    ELSE LET properties == IF d.pshape = "ok" THEN d.props ELSE <<>>
             sig == SigOf(properties)
             body == BodyOf(properties)
         IN  IF Compiles(d.name.v, sig, body)
             THEN [ok |-> TRUE, name |-> d.name.v, sig |-> sig, body |-> body]
             ELSE NoCallable

\* Values of arguments: None (also the default of an optional parameter)
\* and two others.
ArgValues == {"None", "x", "y"}

\* The value of name k inside the generated function called with args.
Lookup(f, args, k) ==
    IF k \in Range(f.sig) THEN args[k]
    ELSE IF k \in Globals(f.name) THEN "<object>"
    ELSE "<NameError>"

NoCall == [status |-> "none", tool |-> <<>>, args |-> {}, params |-> {}]

\* A call of the generated function f: the params it hands to
\* call_filemaker_script, or the NameError that leaves it.
CallGenerated(f, args) ==
    LET given == {<<k, args[k]>> : k \in Range(f.sig)}
        value == [k \in Range(f.body) |-> Lookup(f, args, k)]
    IN  IF \E k \in Range(f.body) : value[k] = "<NameError>"
        THEN [status |-> "NameError", tool |-> f.name, args |-> given, params |-> {}]
        ELSE [status |-> "called", tool |-> f.name, args |-> given,
              params |-> {<<k, value[k]>> : k \in {j \in Range(f.body) : value[j] # "None"}}]

-----------------------------------------------------------------------------
(* The interface assembler: setup_gradio_interface *)

NoDemo == [kind |-> "none", tabs |-> <<>>]
Fallback == [kind |-> "fallback", tabs |-> <<>>]
NoCurrent == Descriptor("none", Py_None, "ok", <<>>)

ToolInit ==
    /\ apc = "fetch"
    /\ remaining = 0
    /\ current = NoCurrent
    /\ built = 0
    /\ tool_functions = <<>>
    /\ interfaces = <<>>
    /\ demo = NoDemo
    /\ forwarded = NoCall

\* tools_data = get_tools_from_filemaker(): a list of n elements; an empty
\* list (also returned on every failure) gives the fallback interface.
FetchTools(most) ==
    /\ apc = "fetch"
    /\ \E n \in 0..most :
        /\ remaining' = n
        /\ IF n = 0
           THEN apc' = "done" /\ demo' = Fallback
           ELSE apc' = "loop1" /\ UNCHANGED demo
    /\ UNCHANGED <<current, built, tool_functions, interfaces, forwarded>>
    /\ UNCHANGED nonToolVars

\* if tool_func: after create_gradio_function.
Registered_always(func) == TRUE

Registered(func) == func.ok

\* tool_functions[key] = item: a new key goes last, a known key keeps its
\* place.
Put(items, key, item) ==
    IF \E i \in 1..Len(items) : items[i].key = key
    THEN [i \in 1..Len(items) |-> IF items[i].key = key THEN item ELSE items[i]]
    ELSE Append(items, item)

\* One pass of "for tool_data in tools_data": the element is skipped when
\* it is no dict with a 'function' key or when function.get raises, and is
\* stored under its name when create_gradio_function returned a function.
ProcessTool(pool) ==
    /\ apc = "loop1"
    /\ remaining > 0
    /\ \E d \in pool :
        /\ current' = d
        /\ IF d.shape = "dict" /\ Registered(create_gradio_function(d))
           THEN tool_functions' =
                    Put(tool_functions, d.name.v,
                        [key |-> d.name.v, func |-> create_gradio_function(d), data |-> d])
           ELSE UNCHANGED tool_functions
    /\ remaining' = remaining - 1
    /\ UNCHANGED <<apc, built, interfaces, demo, forwarded>>
    /\ UNCHANGED nonToolVars

\* The first loop is over: if not tool_functions, the fallback interface.
EndLoop1 ==
    /\ apc = "loop1"
    /\ remaining = 0
    /\ IF tool_functions = <<>>
       THEN apc' = "done" /\ demo' = Fallback
       ELSE apc' = "loop2" /\ UNCHANGED demo
    /\ UNCHANGED <<remaining, current, built, tool_functions, interfaces, forwarded>>
    /\ UNCHANGED nonToolVars

\* The keys that get an input widget: every dict info, whatever its key.
WidgetKeys(d) ==
    LET properties == IF d.pshape = "ok" THEN d.props ELSE <<>>
    IN  Keys(SelectSeq(properties, LAMBDA p : p.info # "not_dict"))

\* One pass of "for tool_name, (tool_func, tool_data) in
\* tool_functions.items()": a widget whose construction raises is left out,
\* and a form whose construction raises is not appended.
BuildForm ==
    /\ apc = "loop2"
    /\ built < Len(tool_functions)
    /\ LET item == tool_functions[built + 1]
           keys == WidgetKeys(item.data)
       IN  \E formOk \in BOOLEAN : \E broken \in SUBSET (1..Len(keys)) :
             /\ (~formOk => broken = {})
             /\ interfaces' =
                  IF formOk
                  THEN Append(interfaces,
                              [title |-> item.key, fn |-> item.func,
                               inputs |-> SelectSeq(keys, LAMBDA k :
                                   \A i \in broken : keys[i] # k)])
                  ELSE interfaces
    /\ built' = built + 1
    /\ UNCHANGED <<apc, remaining, current, tool_functions, demo, forwarded>>
    /\ UNCHANGED nonToolVars

\* The pairs gr.TabbedInterface makes of its interface list and tab names:
\* zip(interface_list, tab_names).
Zip(forms, names) ==
    [i \in 1..(IF Len(forms) < Len(names) THEN Len(forms) ELSE Len(names)) |->
        [label |-> names[i], form |-> forms[i]]]

\* The tab names given to gr.TabbedInterface: list(tool_functions.keys()).
TabNames == [i \in 1..Len(tool_functions) |-> tool_functions[i].key]

\* The second loop is over: tabs, the single form, or the fallback.
Compose ==
    /\ apc = "loop2"
    /\ built = Len(tool_functions)
    /\ demo' =
         IF Len(interfaces) > 1
         THEN [kind |-> "tabbed", tabs |-> Zip(interfaces, TabNames)]
         ELSE IF Len(interfaces) = 1
         THEN [kind |-> "single",
               tabs |-> <<[label |-> interfaces[1].title, form |-> interfaces[1]]>>]
         ELSE Fallback
    /\ apc' = "done"
    /\ UNCHANGED <<remaining, current, built, tool_functions, interfaces, forwarded>>
    /\ UNCHANGED nonToolVars

\* A client calls the function of one of the forms served, giving each
\* parameter a value or None.
InvokeTool ==
    /\ apc = "done"
    /\ \E i \in 1..Len(demo.tabs) :
        LET f == demo.tabs[i].form.fn
        IN  \E args \in [Range(f.sig) -> ArgValues] :
              forwarded' = CallGenerated(f, args)
    /\ UNCHANGED <<apc, remaining, current, built, tool_functions, interfaces, demo>>
    /\ UNCHANGED nonToolVars

-----------------------------------------------------------------------------
(* The process entry: main and signal_handler *)

ports_to_try == <<7860, 7861, 7862, 7863, 7864>>

\* What demo.launch does on a port: it serves (and blocks), raises OSError
\* "Address already in use" or "Cannot find empty port", raises another
\* OSError, or raises something that is no OSError.
PortStates == {"free", "in_use", "os_error", "error"}

Signals == {"SIGINT", "SIGTERM"}

MainInit ==
    /\ mpc = "start"
    /\ portState \in [1..Len(ports_to_try) -> PortStates]
    /\ portIdx = 0
    /\ attempts = <<>>
    /\ boundPort = 0
    /\ shutdown_requested = FALSE
    /\ lastSignal = "none"
    /\ exitCode = -1

\* signal.signal(SIGINT, signal_handler); signal.signal(SIGTERM, ...)
InstallHandlers ==
    /\ mpc = "start"
    /\ mpc' = "validate"
    /\ UNCHANGED <<portState, portIdx, attempts, boundPort, shutdown_requested,
                   lastSignal, exitCode>>
    /\ UNCHANGED nonMainVars

\* if not validate_environment(): sys.exit(1)
Validate ==
    /\ mpc = "validate"
    /\ \E valid \in BOOLEAN :
        IF valid
        THEN mpc' = "setup" /\ UNCHANGED exitCode
        ELSE mpc' = "exited" /\ exitCode' = 1
    /\ UNCHANGED <<portState, portIdx, attempts, boundPort, shutdown_requested,
                   lastSignal>>
    /\ UNCHANGED nonMainVars

\* demo = setup_gradio_interface(): an interface, or the exception of a
\* fallback interface that cannot be built, which main turns into exit 1.
Setup ==
    /\ mpc = "setup"
    /\ \E built_demo \in BOOLEAN :
        IF built_demo
        THEN mpc' = "ports" /\ portIdx' = 1 /\ UNCHANGED exitCode
        ELSE mpc' = "exited" /\ exitCode' = 1 /\ UNCHANGED portIdx
    /\ UNCHANGED <<portState, attempts, boundPort, shutdown_requested, lastSignal>>
    /\ UNCHANGED nonMainVars

\* The body of "for port in ports_to_try" with the break taken out: the
\* loop goes on after a launch that served.
OnLaunch_no_break(st, i) ==
    IF st = "error"
    THEN [mpc |-> "exited", idx |-> i, code |-> 1, bound |-> FALSE]
    ELSE [mpc |-> "ports", idx |-> i + 1, code |-> -1, bound |-> st = "free"]

\* The body of "for port in ports_to_try" for a launch that does st on the
\* i-th port: break when it served, continue on an OSError, and exit 1 by
\* the handler of main on any other exception.
OnLaunch(st, i) ==
    IF st = "free"
    THEN [mpc |-> "serving", idx |-> i, code |-> -1, bound |-> TRUE]
    ELSE IF st \in {"in_use", "os_error"}
    THEN [mpc |-> "ports", idx |-> i + 1, code |-> -1, bound |-> FALSE]
    ELSE [mpc |-> "exited", idx |-> i, code |-> 1, bound |-> FALSE]

\* demo.launch(server_port=port, ...) on the next port of the list.
TryPort ==
    /\ mpc = "ports"
    /\ portIdx <= Len(ports_to_try)
    /\ LET to == OnLaunch(portState[portIdx], portIdx)
       IN  /\ mpc' = to.mpc
           /\ portIdx' = to.idx
           /\ exitCode' = to.code
           /\ boundPort' = IF to.bound THEN ports_to_try[portIdx] ELSE boundPort
    /\ attempts' = Append(attempts, ports_to_try[portIdx])
    /\ UNCHANGED <<portState, shutdown_requested, lastSignal>>
    /\ UNCHANGED nonMainVars

\* The else clause of the for loop: no port was left; sys.exit(1).
PortsExhausted ==
    /\ mpc = "ports"
    /\ portIdx > Len(ports_to_try)
    /\ mpc' = "exited"
    /\ exitCode' = 1
    /\ UNCHANGED <<portState, portIdx, attempts, boundPort, shutdown_requested,
                   lastSignal>>
    /\ UNCHANGED nonMainVars

\* launch returns because the server has stopped: the loop breaks and main
\* returns.
LaunchReturns ==
    /\ mpc = "serving"
    /\ mpc' = "exited"
    /\ exitCode' = 0
    /\ UNCHANGED <<portState, portIdx, attempts, boundPort, shutdown_requested,
                   lastSignal>>
    /\ UNCHANGED nonMainVars

\* A signal is delivered.  Once the handlers are installed signal_handler
\* runs: it sets _shutdown_requested and returns.  Before that, SIGINT
\* raises KeyboardInterrupt in main (sys.exit(0)) and SIGTERM ends the
\* process.
Signal(sig) ==
    /\ mpc # "exited"
    /\ lastSignal' = sig
    /\ IF mpc # "start"
       THEN /\ shutdown_requested' = TRUE
            /\ UNCHANGED <<mpc, exitCode>>
       ELSE /\ mpc' = "exited"
            /\ exitCode' = IF sig = "SIGINT" THEN 0 ELSE 128 + 15
            /\ UNCHANGED shutdown_requested
    /\ UNCHANGED <<portState, portIdx, attempts, boundPort>>
    /\ UNCHANGED nonMainVars

MainNext ==
    \/ InstallHandlers
    \/ Validate
    \/ Setup
    \/ TryPort
    \/ PortsExhausted
    \/ LaunchReturns
    \/ \E sig \in Signals : Signal(sig)

-----------------------------------------------------------------------------
(* Specifications *)

\* The process before main, with every port free.
MainIdle == MainInit /\ portState = [i \in 1..Len(ports_to_try) |-> "free"]

Init == TokenInit /\ ToolInit /\ MainIdle

\* The process from the entry of main to its exit, whatever the ports do.
MainStart == TokenInit /\ ToolInit /\ MainInit

MainSpec == MainStart /\ [][MainNext]_vars

\* The same, where main and the interpreter take the steps they can take;
\* the delivery of a signal and the end of the server are not promised.
FairMainSpec ==
    /\ MainSpec
    /\ WF_vars(InstallHandlers)
    /\ WF_vars(Validate)
    /\ WF_vars(Setup)
    /\ WF_vars(TryPort)
    /\ WF_vars(PortsExhausted)

\* Concurrent requests, each in get_fm_token: the only code that touches
\* the shared cache.
Next ==
    \/ Tick
    \/ \E t \in Threads : CallToken(t)
    \/ \E t \in Threads : TokenStep(t)

Spec == Init /\ [][Next]_vars

\* Requests served one after the other, each get_fm_token or
\* call_filemaker_script.
SeqNext ==
    \/ Tick
    \/ \E t \in Threads : CallAlone(t)
    \/ \E t \in Threads : TokenStep(t)
    \/ \E t \in Threads : SendScript(t)
    \/ \E t \in Threads : ScriptResponse(t)

SeqSpec == Init /\ [][SeqNext]_vars

\* The assembly of the interface from a list of up to MaxTools descriptors
\* of any shape and name, and calls of the functions served.
AssemblyNext ==
    \/ FetchTools(MaxTools)
    \/ ProcessTool(AssemblyPool)
    \/ EndLoop1
    \/ BuildForm
    \/ Compose
    \/ InvokeTool

AssemblySpec == Init /\ [][AssemblyNext]_vars

\* The translation of one descriptor with any parameters mapping, its form,
\* and calls of its function.
CallNext ==
    \/ FetchTools(1)
    \/ ProcessTool(CallPool)
    \/ EndLoop1
    \/ BuildForm
    \/ Compose
    \/ InvokeTool

CallSpec == Init /\ [][CallNext]_vars

-----------------------------------------------------------------------------
(* Claims about the token cache and the backend client *)

\* C1: while requests call get_fm_token concurrently, at most one
\* authentication call (session POST) is in flight at any time.
C1_AtMostOneAuthInFlight ==
    Cardinality({t \in Threads : pc[t] = "auth"}) <= 1

\* The cache held a usable token when the call of thread t began.
HadValidToken(t) == snapshot[t][1] > 0 /\ snapshot[t][3] < snapshot[t][2]

\* C2: in a sequence of non-overlapping calls, get_fm_token called while the
\* cache holds a token with current time < expiry makes no authentication
\* call and returns the cached token; called when the expiry has passed or no
\* token is cached it makes exactly one authentication call and, when that
\* succeeds, returns the new token and has cached it with an expiry 14
\* minutes after the time of the call.
C2_CachedOrOneAuth ==
    \A t \in Threads :
        pc[t] = "returned" =>
            IF HadValidToken(t)
            THEN /\ authCalls[t] = 0
                 /\ ret[t] = snapshot[t][1]
                 /\ <<cacheToken, cacheExpires>> = <<snapshot[t][1], snapshot[t][2]>>
            ELSE /\ authCalls[t] = 1
                 /\ outcome[t] \in {"token", "empty_token"} =>
                        /\ ret[t] # NoneTok
                        /\ (outcome[t] = "token" => ret[t] > 0 /\ ret[t] # snapshot[t][1])
                        /\ cacheToken = ret[t]
                        /\ cacheExpires = snapshot[t][3] + 840

\* A call that found an expired token, authenticated once and returned the
\* new token.
C2_Witness ==
    \E t \in Threads :
        /\ pc[t] = "returned"
        /\ snapshot[t][1] > 0
        /\ snapshot[t][3] >= snapshot[t][2]
        /\ authCalls[t] = 1
        /\ ret[t] > 0
        /\ cacheToken = ret[t]

\* The texts of ScriptTexts that are JSON, with the value each denotes.
C4_Parsed(s) ==
    CASE s = <<"4", "2">> -> [ty |-> "int", v |-> <<"4", "2">>]
      [] s = <<"\"", "o", "k", "\"">> -> [ty |-> "str", v |-> <<"o", "k">>]
      [] s = <<"{", "}">> -> [ty |-> "dict", v |-> <<>>]
      [] s = <<"t", "r", "u", "e">> -> [ty |-> "bool", v |-> <<"1">>]
C4_JsonTexts ==
    {<<"4", "2">>, <<"\"", "o", "k", "\"">>, <<"{", "}">>, <<"t", "r", "u", "e">>}

\* C4: call_filemaker_script never raises and does not retry: a scriptResult
\* that is valid JSON comes back parsed, one that is plain text comes back
\* unchanged, and any failure (no token, timeout, transport error, malformed
\* envelope, parameters that cannot be encoded) gives an {"error": reason}
\* payload, after at most one authentication call and one script request.
C4_InvokeNeverRaises ==
    \A t \in Threads :
        (pc[t] = "done" /\ op[t] = "call_filemaker_script") =>
            /\ result[t].ty # "raised"
            /\ raised[t] = "none"
            /\ authCalls[t] <= 1
            /\ scriptCalls[t] <= 1
            /\ (sent[t].kind = "scriptResult" /\ sent[t].value.ty = "str") =>
                   IF sent[t].value.v \in C4_JsonTexts
                   THEN result[t] = C4_Parsed(sent[t].value.v)
                   ELSE result[t] = sent[t].value
            /\ (\/ ret[t] <= 0
                \/ sent[t].kind \in ScriptExceptions
                \/ (ret[t] > 0 /\ params[t] = "unserializable")) =>
                   result[t].ty = "error_dict"
            /\ (ret[t] <= 0 \/ params[t] = "unserializable") => scriptCalls[t] = 0

\* A script answered with JSON text and the call returned the parsed value.
C4_Witness ==
    \E t \in Threads :
        /\ pc[t] = "done"
        /\ op[t] = "call_filemaker_script"
        /\ scriptCalls[t] = 1
        /\ sent[t].kind = "scriptResult"
        /\ sent[t].value = [ty |-> "str", v |-> <<"4", "2">>]
        /\ result[t] = [ty |-> "int", v |-> <<"4", "2">>]

\* C5: when the authentication call of get_fm_token fails (transport error,
\* timeout, or a response without the token field), get_fm_token returns
\* None without raising and the cached token and expiry are what they were
\* before the call.
C5_FailedAuthKeepsCache ==
    \A t \in Threads :
        (pc[t] = "returned" /\ outcome[t] \in AuthExceptions) =>
            /\ ret[t] = NoneTok
            /\ raised[t] = "none"
            /\ cacheToken = snapshot[t][1]
            /\ cacheExpires = snapshot[t][2]

\* An authentication failed while the cache held an expired token, which is
\* still there.
C5_Witness ==
    \E t \in Threads :
        /\ pc[t] = "returned"
        /\ outcome[t] \in AuthExceptions
        /\ snapshot[t][1] > 0
        /\ cacheToken = snapshot[t][1]


-----------------------------------------------------------------------------
(* Claims about translation and assembly *)

\* C3: with k the number of descriptors that were translated and got a
\* form, setup_gradio_interface returns the fallback interface when k = 0,
\* that form alone when k = 1, and when k >= 2 a tabbed interface of exactly
\* k tabs, each labelled with the name of the tool whose form it holds; a
\* descriptor that fails never removes or mislabels the form of another.
C3_AssemblyLadder ==
    apc = "done" =>
        LET k == Len(interfaces)
        IN  /\ (k = 0 => demo.kind = "fallback")
            /\ (k = 1 => /\ demo.kind = "single"
                         /\ Len(demo.tabs) = 1
                         /\ demo.tabs[1].form = interfaces[1])
            /\ (k >= 2 => /\ demo.kind = "tabbed"
                          /\ Len(demo.tabs) = k
                          /\ \A i \in 1..k :
                                /\ demo.tabs[i].form = interfaces[i]
                                /\ demo.tabs[i].label = interfaces[i].title)

\* A text that is no identifier: empty, starting with a digit, or holding a
\* character that is no letter, digit or underscore.
NotAnIdentifier(s) ==
    \/ s = <<>>
    \/ s[1] \in Digits
    \/ \E i \in 1..Len(s) : s[i] \notin (Letters \cup Digits \cup {"_"})

\* A name that is missing, no string, or no identifier.
BadToolName(name) == name.ty # "str" \/ NotAnIdentifier(name.v)

\* C6: in every call of a generated function, the mapping handed to
\* call_filemaker_script has no key for a parameter that was left out and
\* has every parameter that was given, with the value given.
C6_ForwardsWhatWasGiven ==
    forwarded.status # "none" =>
        /\ forwarded.status = "called"
        /\ forwarded.params = {a \in forwarded.args : a[2] # "None"}

\* C9: a descriptor whose function name is missing, not a string or no
\* identifier is translated to None, and no item of tool_functions, no form
\* and no tab is made for it.
C9_BadNameNoForm ==
    /\ (current.shape = "dict" /\ BadToolName(current.name)) =>
          /\ ~create_gradio_function(current).ok
          /\ \A i \in 1..Len(tool_functions) : tool_functions[i].data # current
    /\ \A i \in 1..Len(tool_functions) :
          /\ ~BadToolName(tool_functions[i].data.name)
          /\ tool_functions[i].func.ok
          /\ tool_functions[i].key = tool_functions[i].data.name.v
    /\ \A i \in 1..Len(interfaces) :
          \E j \in 1..Len(tool_functions) :
              /\ interfaces[i].title = tool_functions[j].key
              /\ interfaces[i].fn = tool_functions[j].func
    /\ \A i \in 1..Len(demo.tabs) :
          /\ ~NotAnIdentifier(demo.tabs[i].label)
          /\ \E j \in 1..Len(interfaces) : demo.tabs[i].form = interfaces[j]

\* A descriptor named "my-t" was the last one seen and the interface is the
\* form of another tool.
C9_Witness ==
    /\ apc = "done"
    /\ current.name = [ty |-> "str", v |-> <<"m", "y", "-", "t">>]
    /\ demo.kind = "single"

\* The keys of the parameters mapping of d that are no identifiers.
BadKeys(d) == {k \in Range(Keys(d.props)) : NotAnIdentifier(k)}

\* d without those keys.
WithoutBadKeys(d) ==
    [d EXCEPT !.props = SelectSeq(d.props, LAMBDA p : ~NotAnIdentifier(p.key))]

-----------------------------------------------------------------------------
(* Claims about the process entry *)

\* The ports before the i-th all answer "address in use".
BusyBefore(i) == \A j \in 1..(i - 1) : portState[j] = "in_use"

\* C7: the ports are tried in the order of the list; when the first N are
\* in use and the next one is free, the server is bound to that one and no
\* later port is tried; when all are in use the process exits with code 1.
C7_FirstFreePort ==
    /\ attempts = SubSeq(<<7860, 7861, 7862, 7863, 7864>>, 1, Len(attempts))
    /\ \A i \in 1..5 :
          (BusyBefore(i) /\ portState[i] = "free") =>
              /\ Len(attempts) <= i
              /\ (Len(attempts) = i =>
                     /\ boundPort = 7859 + i
                     /\ mpc \in {"serving", "exited"}
                     /\ (mpc = "exited" => exitCode = 0))
              /\ (Len(attempts) < i => boundPort = 0)
    /\ BusyBefore(6) =>
          /\ boundPort = 0
          /\ mpc # "serving"
          /\ (Len(attempts) = 5 => mpc \in {"ports", "exited"})
          /\ (Len(attempts) = 5 /\ mpc = "exited" => exitCode = 1)

\* The first three ports were in use and the server is bound to the fourth.
C7_Witness ==
    /\ BusyBefore(4)
    /\ portState[4] = "free"
    /\ mpc = "serving"
    /\ boundPort = 7863
    /\ Len(attempts) = 4

\* C8: a termination or interrupt signal delivered while the process is
\* serving is recorded in _shutdown_requested, and the process then leaves
\* the serving state and exits, with code 0 for a user interrupt.
C8_SignalLeadsToExit ==
    /\ [](lastSignal # "none" /\ mpc = "serving" => shutdown_requested)
    /\ (lastSignal # "none" /\ mpc = "serving") ~> (mpc = "exited")
    /\ (lastSignal = "SIGINT" /\ mpc = "serving") ~> (mpc = "exited" /\ exitCode = 0)

-----------------------------------------------------------------------------
(* The forms as they are used: a submission calls fn with the values of    *)
(* the input widgets, in the order of the inputs list.                     *)

\* The position of key k in the sequence keys, 0 when it is not there.
IndexOf(keys, k) ==
    IF \E i \in 1..Len(keys) : keys[i] = k
    THEN CHOOSE i \in 1..Len(keys) : keys[i] = k
    ELSE 0

\* required_params of the function generated for d: the parameters without
\* a default.
RequiredCount(d) ==
    LET properties == IF d.pshape = "ok" THEN d.props ELSE <<>>
    IN  Len(SelectSeq(properties, LAMBDA q : q.info = "required" /\ IsIdentifier(q.key)))

\* gr.Interface(fn=tool_func, inputs=inputs, ...) submitted with the value
\* entered[i] in the i-th widget: fn(*values).  Too many values, or too few
\* for the parameters without a default, is a TypeError; otherwise the i-th
\* value is the i-th parameter and the others keep their default None.
Submit(form, nreq, entered) ==
    LET f == form.fn
        typed == {<<form.inputs[i], entered[i]>> : i \in 1..Len(form.inputs)}
    IN  IF Len(form.inputs) > Len(f.sig) \/ Len(form.inputs) < nreq
        THEN [status |-> "TypeError", tool |-> f.name, args |-> typed, params |-> {}]
        ELSE LET args == [k \in Range(f.sig) |->
                             IF IndexOf(f.sig, k) <= Len(form.inputs)
                             THEN entered[IndexOf(f.sig, k)]
                             ELSE "None"]
             IN  [CallGenerated(f, args) EXCEPT !.args = typed]

\* A user fills in a form of the interface served and submits it.
SubmitForm ==
    /\ apc = "done"
    /\ \E i \in 1..Len(demo.tabs) : \E j \in 1..Len(tool_functions) :
        LET form == demo.tabs[i].form
        IN  /\ tool_functions[j].func = form.fn
            /\ \E entered \in [1..Len(form.inputs) -> ArgValues] :
                  forwarded' = Submit(form, RequiredCount(tool_functions[j].data), entered)
    /\ UNCHANGED <<apc, remaining, current, built, tool_functions, interfaces, demo>>
    /\ UNCHANGED nonToolVars

FormNext ==
    \/ FetchTools(1)
    \/ ProcessTool(CallPool)
    \/ EndLoop1
    \/ BuildForm
    \/ Compose
    \/ SubmitForm

\* One descriptor is translated, gets its form, and the form is submitted.
FormSpec == Init /\ [][FormNext]_vars

\* Every info of d is a dict under an identifier key.
WellFormed(d) ==
    \A i \in 1..Len(d.props) :
        d.props[i].info # "not_dict" /\ ~NotAnIdentifier(d.props[i].key)

\* C11: the form of a translated tool has one input widget per parameter of
\* the generated function, in the order of its positional parameters, so
\* that the value entered in the widget labelled p is handed to
\* call_filemaker_script under the key p, whatever the order of required
\* and optional parameters in the descriptor.  Stated for the descriptors
\* that are well formed and the forms whose widgets were all built.
C11_WidgetsMirrorParameters ==
    \A i \in 1..Len(tool_functions) : \A j \in 1..Len(interfaces) :
        (/\ interfaces[j].fn = tool_functions[i].func
         /\ WellFormed(tool_functions[i].data)
         /\ Len(interfaces[j].inputs) = Len(tool_functions[i].data.props)
         /\ forwarded.status # "none"
         /\ forwarded.tool = interfaces[j].fn.name) =>
            /\ interfaces[j].inputs = interfaces[j].fn.sig
            /\ forwarded.status = "called"
            /\ forwarded.params = {a \in forwarded.args : a[2] # "None"}

====
